---- MODULE Spec2Model ----
(***************************************************************************)
(* Model of the project initializer (initialize.ts): the recursive         *)
(* tree copy with exclusions (copyRecursiveSync), the manifest rewrite     *)
(* (updatePackageJson) and the driver that composes them (run).            *)
(*                                                                         *)
(* Strings that the code inspects character by character (paths, which     *)
(* are compared with String.prototype.startsWith) are sequences of         *)
(* one-character strings.  The filesystem is a function from absolute      *)
(* paths to nodes.                                                         *)
(***************************************************************************)
EXTENDS Integers, Sequences, FiniteSets, TLC

VARIABLES
    fs,          \* the filesystem: absolute path -> node
    denied,      \* paths the OS refuses to create or write (EACCES)
    pc,          \* position of run()
    targetDir,   \* run(): const targetDir
    answers,     \* run(): const answers (from inquirer)
    idx,         \* position of FILES_TO_COPY.forEach
    thrown,      \* the error that reached run().catch, or NoError
    exitCode,    \* process exit code of the current invocation (-1: running)
    console,     \* what the current invocation printed
    runs,        \* number of invocations of the tool started so far
    initialized  \* an earlier invocation printed "Project initialized successfully!"

vars == << fs, denied, pc, targetDir, answers, idx, thrown, exitCode, console,
           runs, initialized >>

(***************************************************************************)
(* Bounds                                                                  *)
(***************************************************************************)
\* how many times the tool is invoked against the same target
MaxRuns == 2

(***************************************************************************)
(* Strings and paths (node:path, POSIX flavour)                            *)
(***************************************************************************)
Sep == "/"

StartsWith(s, prefix) ==
    /\ Len(prefix) <= Len(s)
    /\ SubSeq(s, 1, Len(prefix)) = prefix

PathJoin(a, b) == a \o << Sep >> \o b

LastSep(p) ==
    LET seps == { i \in 1..Len(p) : p[i] = Sep }
    IN  IF seps = {} THEN 0 ELSE CHOOSE i \in seps : \A j \in seps : j <= i

PathBasename(p) == SubSeq(p, LastSep(p) + 1, Len(p))

PathDirname(p) ==
    IF LastSep(p) = 0 THEN << "." >>
    ELSE IF LastSep(p) = 1 THEN << Sep >>
    ELSE SubSeq(p, 1, LastSep(p) - 1)

\* path.relative(from, to) for a `to` that is `from` or lies below it
PathRelative(from, to) ==
    IF to = from THEN << >>
    ELSE IF StartsWith(to, from \o << Sep >>)
         THEN SubSeq(to, Len(from) + 2, Len(to))
         ELSE << ".", "." >> \o << Sep >> \o to

\* the directories a path lies in, the path itself included ("/" excluded)
AncestorsOrSelf(p) ==
    { SubSeq(p, 1, i) : i \in { j \in 1..Len(p) : j = Len(p) \/ p[j + 1] = Sep } }

(***************************************************************************)
(* Configuration                                                           *)
(***************************************************************************)
TEMPLATE_DIR == << "/", "t", "m", "p", "l" >>

FILES_TO_COPY ==
    << << ".", "e", "s", "l", "i", "n", "t", "r", "c", ".", "j", "s", "o", "n" >>,
       << ".", "g", "i", "t", "i", "g", "n", "o", "r", "e" >>,
       << ".", "p", "r", "e", "t", "t", "i", "e", "r", "r", "c", ".", "j", "s", "o", "n" >>,
       << "R", "E", "A", "D", "M", "E", ".", "m", "d" >>,
       << "t", "s", "c", "o", "n", "f", "i", "g", ".", "j", "s", "o", "n" >>,
       << "d", "o", "c", "s" >>,
       << "s", "r", "c" >> >>

EXCLUDE_FROM_COPY ==
    << << "n", "o", "d", "e", "_", "m", "o", "d", "u", "l", "e", "s" >>,
       << "d", "i", "s", "t" >>,
       << ".", "g", "i", "t" >>,
       << "p", "a", "c", "k", "a", "g", "e", "-", "l", "o", "c", "k", ".", "j", "s", "o", "n" >>,
       PathJoin(<< "s", "r", "c" >>,
                << "i", "n", "i", "t", "i", "a", "l", "i", "z", "e", ".", "t", "s" >>) >>

PackageJson == << "p", "a", "c", "k", "a", "g", "e", ".", "j", "s", "o", "n" >>

(***************************************************************************)
(* Filesystem (node:fs)                                                    *)
(***************************************************************************)
NoError == [kind |-> "none", path |-> << >>]

Error(kind, path) == [kind |-> kind, path |-> path]

Dir == [kind |-> "dir", data |-> [bytes |-> ""]]

File(data) == [kind |-> "file", data |-> data]

existsSync(fsys, p) == p \in DOMAIN fsys

isDirectory(fsys, p) == fsys[p].kind = "dir"

\* fs.mkdirSync(p, { recursive: true }): creates p and its missing ancestors,
\* top down; an existing directory is not an error
mkdirSync(fsys, p) ==
    LET chain   == AncestorsOrSelf(p)
        missing == { q \in chain : q \notin DOMAIN fsys }
        files   == { q \in chain : q \in DOMAIN fsys /\ fsys[q].kind = "file" }
        blocked == missing \cap denied
        first   == CHOOSE q \in blocked : \A r \in blocked : Len(q) <= Len(r)
        made    == IF blocked = {} THEN missing
                   ELSE { q \in missing : Len(q) < Len(first) }
    IN  IF files # {}
        THEN [fs |-> fsys,
              thrown |-> Error(IF p \in files THEN "EEXIST" ELSE "ENOTDIR", p)]
        ELSE [fs |-> [q \in made |-> Dir] @@ fsys,
              thrown |-> IF blocked = {} THEN NoError ELSE Error("EACCES", first)]

\* fs.copyFileSync(src, dst): whole-file copy, overwriting dst
copyFileSync(fsys, src, dst) ==
    IF ~existsSync(fsys, PathDirname(dst))
    THEN [fs |-> fsys, thrown |-> Error("ENOENT", dst)]
    ELSE IF ~isDirectory(fsys, PathDirname(dst))
    THEN [fs |-> fsys, thrown |-> Error("ENOTDIR", dst)]
    ELSE IF existsSync(fsys, dst) /\ isDirectory(fsys, dst)
    THEN [fs |-> fsys, thrown |-> Error("EISDIR", dst)]
    ELSE IF dst \in denied
    THEN [fs |-> fsys, thrown |-> Error("EACCES", dst)]
    ELSE [fs |-> (dst :> File(fsys[src].data)) @@ fsys, thrown |-> NoError]

\* fs.writeFileSync(p, data)
writeFileSync(fsys, p, data) ==
    IF ~existsSync(fsys, PathDirname(p))
    THEN [fs |-> fsys, thrown |-> Error("ENOENT", p)]
    ELSE IF ~isDirectory(fsys, PathDirname(p))
    THEN [fs |-> fsys, thrown |-> Error("ENOTDIR", p)]
    ELSE IF existsSync(fsys, p) /\ isDirectory(fsys, p)
    THEN [fs |-> fsys, thrown |-> Error("EISDIR", p)]
    ELSE IF p \in denied
    THEN [fs |-> fsys, thrown |-> Error("EACCES", p)]
    ELSE [fs |-> (p :> File(data)) @@ fsys, thrown |-> NoError]

\* fs.readdirSync(dir): the names of the entries of dir, in the order the
\* operating system lists them (here: one fixed order per set of names)
RECURSIVE SeqOf(_)
SeqOf(S) ==
    IF S = {} THEN << >>
    ELSE LET x == CHOOSE y \in S : TRUE IN << x >> \o SeqOf(S \ {x})

readdirSync(fsys, dir) ==
    SeqOf({ PathBasename(q) : q \in { r \in DOMAIN fsys : PathDirname(r) = dir } })

(***************************************************************************)
(* copyRecursiveSync                                                       *)
(***************************************************************************)
\* variant: only the first segment of the path is looked up in the list
IsExcludedByFirstSegment(relativeSourcePath, exclude) ==
    \E i \in 1..Len(exclude) :
        exclude[i] = SubSeq(relativeSourcePath, 1,
                            IF \E j \in 1..Len(relativeSourcePath) : relativeSourcePath[j] = Sep
                            THEN (CHOOSE j \in 1..Len(relativeSourcePath) :
                                     /\ relativeSourcePath[j] = Sep
                                     /\ \A k \in 1..(j - 1) : relativeSourcePath[k] # Sep) - 1
                            ELSE Len(relativeSourcePath))

\* exclude.some(ex => relativeSourcePath.startsWith(ex))
IsExcluded(relativeSourcePath, exclude) ==
    \E i \in 1..Len(exclude) : StartsWith(relativeSourcePath, exclude[i])

\* variant: mkdir without the existsSync guard and without recursive, which
\* fails on an existing directory
EnsureDestinationNoGuard(fsys, destination) ==
    IF existsSync(fsys, destination)
    THEN [fs |-> fsys, thrown |-> Error("EEXIST", destination)]
    ELSE mkdirSync(fsys, destination)

\* if (!fs.existsSync(destination)) fs.mkdirSync(destination, { recursive: true })
EnsureDestination(fsys, destination) ==
    IF ~existsSync(fsys, destination)
    THEN mkdirSync(fsys, destination)
    ELSE [fs |-> fsys, thrown |-> NoError]

\* if (!fs.existsSync(destDir)) fs.mkdirSync(destDir, { recursive: true })
EnsureParent(fsys, destDir) ==
    IF ~existsSync(fsys, destDir)
    THEN mkdirSync(fsys, destDir)
    ELSE [fs |-> fsys, thrown |-> NoError]

\* the result of a call: the filesystem it leaves, the error it throws (or
\* NoError) and the paths it warned about
RECURSIVE copyRecursiveSync(_, _, _, _)
RECURSIVE forEachChild(_, _, _, _, _)

forEachChild(acc, names, source, destination, exclude) ==
    IF names = << >> \/ acc.thrown # NoError THEN acc
    ELSE LET r == copyRecursiveSync(acc.fs,
                                    PathJoin(source, Head(names)),
                                    PathJoin(destination, Head(names)),
                                    exclude)
         IN  forEachChild([fs |-> r.fs, thrown |-> r.thrown,
                           warned |-> acc.warned \cup r.warned],
                          Tail(names), source, destination, exclude)

copyRecursiveSync(fsys, source, destination, exclude) ==
    LET exists             == existsSync(fsys, source)
        isDir              == exists /\ isDirectory(fsys, source)
        relativeSourcePath == PathRelative(TEMPLATE_DIR, source)
    IN  IF ~exists \/ IsExcluded(relativeSourcePath, exclude)
        THEN [fs |-> fsys, thrown |-> NoError, warned |-> {}]
        ELSE IF isDir
        THEN LET m == EnsureDestination(fsys, destination)
             IN  IF m.thrown # NoError
                 THEN [fs |-> m.fs, thrown |-> m.thrown, warned |-> {}]
                 ELSE forEachChild([fs |-> m.fs, thrown |-> NoError, warned |-> {}],
                                   readdirSync(m.fs, source),
                                   source, destination, exclude)
        ELSE IF exists
        THEN LET m == EnsureParent(fsys, PathDirname(destination))
             IN  IF m.thrown # NoError
                 THEN [fs |-> m.fs, thrown |-> m.thrown, warned |-> {}]
                 ELSE LET c == copyFileSync(m.fs, source, destination)
                      IN  [fs |-> c.fs, thrown |-> c.thrown, warned |-> {}]
        ELSE [fs |-> fsys, thrown |-> NoError, warned |-> {source}]

(***************************************************************************)
(* updatePackageJson                                                       *)
(***************************************************************************)
\* A file that holds a JSON object is File([json |-> object]); any other
\* file is File([bytes |-> ...]).  Objects are functions from keys to values.
IsJson(data) == "json" \in DOMAIN data

JSONparse(data) == data.json

JSONstringify(object) == [json |-> object]

TemplateFields == { "bin", "author", "repository", "bugs", "homepage" }

\* the template's own build: compile, then patch dist/initialize.js
ChainedBuild == "tsc && node -e <prepend the shebang to dist/initialize.js and chmod it>"

\* variant: only the template's own chained build is rewritten
FixBuildScriptOnlyChained(packageJson) ==
    IF /\ "scripts" \in DOMAIN packageJson
       /\ "build" \in DOMAIN packageJson["scripts"]
       /\ packageJson["scripts"]["build"] = ChainedBuild
    THEN [packageJson EXCEPT !["scripts"] = [@ EXCEPT !["build"] = "tsc"]]
    ELSE packageJson

\* if (packageJson.scripts && packageJson.scripts.build) packageJson.scripts.build = 'tsc'
FixBuildScript(packageJson) ==
    IF /\ "scripts" \in DOMAIN packageJson
       /\ "build" \in DOMAIN packageJson["scripts"]
       /\ packageJson["scripts"]["build"] # ""
    THEN [packageJson EXCEPT !["scripts"] = [@ EXCEPT !["build"] = "tsc"]]
    ELSE packageJson

\* variant: the bin field is not deleted
ModifyPackageJsonKeepBin(packageJson, target, ans) ==
    FixBuildScript(
        [k \in (DOMAIN packageJson \ (TemplateFields \ {"bin"}))
               \cup { "name", "version", "description" } |->
            IF k = "name"
            THEN IF ans.projectName # << >> THEN ans.projectName
                 ELSE PathBasename(target)
            ELSE IF k = "version" THEN "0.1.0"
            ELSE IF k = "description"
            THEN IF ans.description # "" THEN ans.description ELSE ""
            ELSE packageJson[k]])

\* the assignments and deletes between JSON.parse and JSON.stringify
ModifyPackageJson(packageJson, target, ans) ==
    FixBuildScript(
        [k \in (DOMAIN packageJson \ TemplateFields)
               \cup { "name", "version", "description" } |->
            IF k = "name"
            THEN IF ans.projectName # << >> THEN ans.projectName
                 ELSE PathBasename(target)
            ELSE IF k = "version" THEN "0.1.0"
            ELSE IF k = "description"
            THEN IF ans.description # "" THEN ans.description ELSE ""
            ELSE packageJson[k]])

\* a line on the console: the message, the error kind it names (or "none")
\* and the path it names (or << >>)
Log(msg, kind, path) == [msg |-> msg, kind |-> kind, path |-> path]

\* the result of a call: the filesystem it leaves and what it printed; the
\* catch block swallows every error, so the call never throws
updatePackageJson(fsys, target, ans) ==
    LET packageJsonPath         == PathJoin(target, PackageJson)
        templatePackageJsonPath == PathJoin(TEMPLATE_DIR, PackageJson)
    IN  IF ~existsSync(fsys, templatePackageJsonPath)
        THEN [fs |-> fsys,
              console |-> { Log("Error updating package.json", "ENOENT",
                                templatePackageJsonPath) }]
        ELSE IF ~IsJson(fsys[templatePackageJsonPath].data)
        THEN [fs |-> fsys,
              console |-> { Log("Error updating package.json", "SyntaxError",
                                templatePackageJsonPath) }]
        ELSE LET packageJson == ModifyPackageJson(
                                    JSONparse(fsys[templatePackageJsonPath].data),
                                    target, ans)
                 w == writeFileSync(fsys, packageJsonPath, JSONstringify(packageJson))
             IN  IF w.thrown # NoError
                 THEN [fs |-> w.fs,
                       console |-> { Log("Error updating package.json", w.thrown.kind,
                                         w.thrown.path) }]
                 ELSE [fs |-> w.fs,
                       console |-> { Log("Updated package.json successfully.", "none",
                                         packageJsonPath) }]

(***************************************************************************)
(* The environment: the template on disk, the target before the first      *)
(* invocation, the command line and the user's answers                     *)
(***************************************************************************)
Root == << Sep >>

Cwd == << "/", "w", "o", "r", "k" >>

App == << "a", "p", "p" >>

Foo == << "f", "o", "o" >>

\* process.argv[2]: absent, or a directory name
TargetArgs == { << >>, App }

Target == PathJoin(Cwd, App)

T(rel) == PathJoin(TEMPLATE_DIR, rel)

D(rel) == PathJoin(Target, rel)

Bytes(b) == [bytes |-> b]

Empty == [q \in {} |-> Dir]

EslintRc == FILES_TO_COPY[1]

GitIgnore == FILES_TO_COPY[2]

PrettierRc == FILES_TO_COPY[3]

Readme == FILES_TO_COPY[4]

TsConfig == FILES_TO_COPY[5]

Docs == FILES_TO_COPY[6]

Src == FILES_TO_COPY[7]

InitializeTs == EXCLUDE_FROM_COPY[5]

GuideMd == PathJoin(Docs, << "g", "u", "i", "d", "e", ".", "m", "d" >>)

ServerTs == PathJoin(Src, << "s", "e", "r", "v", "e", "r", ".", "t", "s" >>)

Tools == PathJoin(Src, << "t", "o", "o", "l", "s" >>)

ToolsIndexTs == PathJoin(Tools, << "i", "n", "d", "e", "x", ".", "t", "s" >>)

ExtraTxt == << "e", "x", "t", "r", "a", ".", "t", "x", "t" >>

\* the part of the template every initial state has
BaseFs ==
    (Root :> Dir) @@ (Cwd :> Dir) @@ (TEMPLATE_DIR :> Dir)
    @@ (T(EslintRc) :> File(Bytes("eslintrc")))
    @@ (T(PrettierRc) :> File(Bytes("prettierrc")))
    @@ (T(TsConfig) :> File(Bytes("tsconfig")))
    @@ (T(Src) :> Dir)
    @@ (T(ServerTs) :> File(Bytes("server.ts")))
    @@ (T(Tools) :> Dir)
    @@ (T(ToolsIndexTs) :> File(Bytes("tools/index.ts")))

\* template entries that may be there or not
GitIgnoreFs == T(GitIgnore) :> File(Bytes("gitignore"))

ReadmeFs == T(Readme) :> File(Bytes("readme"))

DocsFs == (T(Docs) :> Dir) @@ (T(GuideMd) :> File(Bytes("guide")))

InitializeFs == T(InitializeTs) :> File(Bytes("initialize.ts"))

Opt(fragment) == { Empty, fragment }

Templates ==
    { BaseFs @@ g @@ r @@ d @@ i :
        g \in Opt(GitIgnoreFs), r \in Opt(ReadmeFs), d \in Opt(DocsFs),
        i \in Opt(InitializeFs) }

FullTemplate == BaseFs @@ GitIgnoreFs @@ ReadmeFs @@ DocsFs @@ InitializeFs

\* the template's package.json
TemplateScripts ==
    { [start |-> "node dist/server.js"],
      [start |-> "node dist/server.js", build |-> ChainedBuild],
      [start |-> "node dist/server.js", build |-> "tsc"],
      [start |-> "node dist/server.js", build |-> "webpack"],
      [start |-> "node dist/server.js", build |-> ""] }

TemplateManifests ==
    { [name |-> << "t", "m", "p", "l" >>, version |-> "9.9.9",
       bin |-> "cli.js", author |-> "X"] }
    \cup
    { [name |-> << "m", "c", "p", "-", "s", "e", "r", "v", "e", "r" >>,
       version |-> "1.0.0", description |-> "MCP server template",
       main |-> "dist/server.js", bin |-> "dist/initialize.js",
       author |-> "A", repository |-> "R", bugs |-> "B", homepage |-> "H",
       scripts |-> sc] : sc \in TemplateScripts }

ManifestFs ==
    { Empty, T(PackageJson) :> File(Bytes("{ not json")) }
    \cup { T(PackageJson) :> File(JSONstringify(m)) : m \in TemplateManifests }

\* the manifest the template ships: every template field, the chained build
ShippedManifestFs ==
    T(PackageJson) :> File(JSONstringify(
        CHOOSE m \in TemplateManifests :
            "scripts" \in DOMAIN m /\ "build" \in DOMAIN m["scripts"]
            /\ m["scripts"]["build"] = ChainedBuild))

\* the target directory before the first invocation
TargetStale ==
    (Target :> Dir)
    @@ (D(ExtraTxt) :> File(Bytes("extra")))
    @@ (D(Readme) :> File(Bytes("old readme")))
    @@ (D(Src) :> Dir)
    @@ (D(InitializeTs) :> File(Bytes("old initialize.ts")))
    @@ (D(PackageJson) :> File(JSONstringify([name |-> << "o", "l", "d" >>,
                                              version |-> "3.0.0"])))

TargetConflict == (Target :> Dir) @@ (D(Docs) :> File(Bytes("docs is a file")))

TargetFs == { Empty, Target :> Dir, TargetStale, TargetConflict }

\* what the OS refuses to create or write
DeniedSets == { {}, { D(Readme) }, { D(Src) }, { D(PackageJson) } }

NoAnswers == [projectName |-> << >>, description |-> ""]

\* validate: (input) => !!input || 'Project name cannot be empty.'
ProjectNames(dir) == { n \in { PathBasename(dir), Foo } : n # << >> }

Descriptions == { "My new MCP Server", "bar" }

(***************************************************************************)
(* run                                                                     *)
(***************************************************************************)
\* every template tree with the shipped manifest, and every manifest with
\* the full template tree
Init ==
    /\ \/ /\ fs \in { tpl @@ ShippedManifestFs @@ t : tpl \in Templates, t \in TargetFs }
          /\ denied \in DeniedSets
       \/ /\ fs \in { FullTemplate @@ m @@ t : m \in ManifestFs, t \in { Empty, TargetStale } }
          /\ denied \in { {}, { D(PackageJson) } }
    /\ pc = "start"
    /\ targetDir = << >>
    /\ answers = NoAnswers
    /\ idx = 0
    /\ thrown = NoError
    /\ exitCode = -1
    /\ console = {}
    /\ runs = 1
    /\ initialized = FALSE

\* argv check, path.resolve, existsSync(targetDir) / mkdirSync(targetDir)
Start ==
    /\ pc = "start"
    /\ \E targetArg \in TargetArgs :
          IF targetArg = << >>
          THEN /\ console' = { Log("Error: Project directory name is required.",
                                   "none", << >>) }
               /\ exitCode' = 1
               /\ pc' = "exited"
               /\ UNCHANGED << fs, targetDir, thrown >>
          ELSE LET dir == PathJoin(Cwd, targetArg)
               IN  /\ targetDir' = dir
                   /\ console' = { Log("Initializing new MCP Server project...",
                                       "none", << >>) }
                   /\ UNCHANGED exitCode
                   /\ IF existsSync(fs, dir)
                      THEN /\ pc' = "promptOverwrite"
                           /\ UNCHANGED << fs, thrown >>
                      ELSE LET m == mkdirSync(fs, dir)
                           IN  /\ fs' = m.fs
                               /\ thrown' = m.thrown
                               /\ pc' = IF m.thrown = NoError
                                        THEN "promptAnswers" ELSE "rejected"
    /\ UNCHANGED << denied, answers, idx, runs, initialized >>

\* variant: the target is emptied when the user agrees to overwrite
\* (fs.rmSync(targetDir, { recursive: true, force: true }); fs.mkdirSync(targetDir))
OverwriteAndClean ==
    /\ pc = "promptOverwrite"
    /\ \E overwrite \in BOOLEAN :
          IF ~overwrite
          THEN /\ console' = console \cup { Log("Initialization cancelled.", "none", << >>) }
               /\ exitCode' = 0
               /\ pc' = "exited"
               /\ UNCHANGED fs
          ELSE /\ console' = console \cup { Log("Overwriting directory", "none", targetDir) }
               /\ pc' = "promptAnswers"
               /\ fs' = [q \in { r \in DOMAIN fs : ~StartsWith(r, targetDir \o << Sep >>) }
                            |-> fs[q]]
               /\ UNCHANGED exitCode
    /\ UNCHANGED << denied, targetDir, answers, idx, thrown, runs, initialized >>

\* the answer to "Directory already exists. Overwrite?"
Overwrite ==
    /\ pc = "promptOverwrite"
    /\ \E overwrite \in BOOLEAN :
          IF ~overwrite
          THEN /\ console' = console \cup { Log("Initialization cancelled.", "none", << >>) }
               /\ exitCode' = 0
               /\ pc' = "exited"
          ELSE /\ console' = console \cup { Log("Overwriting directory", "none", targetDir) }
               /\ pc' = "promptAnswers"
               /\ UNCHANGED exitCode
    /\ UNCHANGED << fs, denied, targetDir, answers, idx, thrown, runs, initialized >>

\* the answers to "Project name:" and "Project description:"
Ask ==
    /\ pc = "promptAnswers"
    /\ \E n \in ProjectNames(targetDir), d \in Descriptions :
          answers' = [projectName |-> n, description |-> d]
    /\ idx' = 1
    /\ pc' = "copy"
    /\ UNCHANGED << fs, denied, targetDir, thrown, exitCode, console, runs, initialized >>

\* one callback of FILES_TO_COPY.forEach
CopyEntry ==
    /\ pc = "copy"
    /\ idx \in 1..Len(FILES_TO_COPY)
    /\ LET fileOrDir       == FILES_TO_COPY[idx]
           sourcePath      == PathJoin(TEMPLATE_DIR, fileOrDir)
           destinationPath == PathJoin(targetDir, fileOrDir)
           r == copyRecursiveSync(fs, sourcePath, destinationPath, EXCLUDE_FROM_COPY)
       IN  /\ fs' = r.fs
           /\ thrown' = r.thrown
           /\ console' = console
                  \cup { Log("Copying", "none", fileOrDir) }
                  \cup { Log("Source path not found, skipping", "none", w) : w \in r.warned }
           /\ IF r.thrown # NoError
              THEN pc' = "rejected" /\ UNCHANGED idx
              ELSE /\ idx' = idx + 1
                   /\ pc' = IF idx = Len(FILES_TO_COPY) THEN "manifest" ELSE "copy"
    /\ UNCHANGED << denied, targetDir, answers, exitCode, runs, initialized >>

\* updatePackageJson(targetDir, answers)
UpdatePackageJson ==
    /\ pc = "manifest"
    /\ LET r == updatePackageJson(fs, targetDir, answers)
       IN  /\ fs' = r.fs
           /\ console' = console \cup r.console
    /\ pc' = "final"
    /\ UNCHANGED << denied, targetDir, answers, idx, thrown, exitCode, runs, initialized >>

\* the final instructions; run() resolves and the process ends
Finish ==
    /\ pc = "final"
    /\ console' = console \cup { Log("Project initialized successfully!", "none", << >>) }
    /\ exitCode' = 0
    /\ initialized' = TRUE
    /\ pc' = "exited"
    /\ UNCHANGED << fs, denied, targetDir, answers, idx, thrown, runs >>

\* run().catch
Catch ==
    /\ pc = "rejected"
    /\ console' = console \cup { Log("An error occurred during initialization:",
                                     thrown.kind, thrown.path) }
    /\ exitCode' = 1
    /\ pc' = "exited"
    /\ UNCHANGED << fs, denied, targetDir, answers, idx, thrown, runs, initialized >>

\* the user invokes the tool again
Rerun ==
    /\ pc = "exited"
    /\ runs < MaxRuns
    /\ runs' = runs + 1
    /\ pc' = "start"
    /\ targetDir' = << >>
    /\ answers' = NoAnswers
    /\ idx' = 0
    /\ thrown' = NoError
    /\ exitCode' = -1
    /\ console' = {}
    /\ UNCHANGED << fs, denied, initialized >>

Next ==
    \/ Start
    \/ Overwrite
    \/ Ask
    \/ CopyEntry
    \/ UpdatePackageJson
    \/ Finish
    \/ Catch
    \/ Rerun

Spec == Init /\ [][Next]_vars

(***************************************************************************)
(* Vocabulary of the properties                                            *)
(***************************************************************************)
\* p is root or lies below it
Under(root, p) == p = root \/ StartsWith(p, root \o << Sep >>)

\* the exclusion rule of the data model: the relative path is an entry of
\* the list or a descendant of one
SegmentExcluded(rel, exclude) ==
    \E i \in 1..Len(exclude) : Under(exclude[i], rel)

\* the tree at root: relative path -> node
Subtree(fsys, root) ==
    [rel \in { PathRelative(root, p) : p \in { q \in DOMAIN fsys : Under(root, q) } }
        |-> fsys[IF rel = << >> THEN root ELSE PathJoin(root, rel)]]

\* the allow-listed entry the forEach is at
CurrentEntry == FILES_TO_COPY[idx]

\* the copy phase of the current invocation ran to its end
CopyDone == pc \in { "manifest", "final" }

Printed(msg) == \E line \in console : line.msg = msg

TemplateManifestPath == PathJoin(TEMPLATE_DIR, PackageJson)

TemplateManifestReadable ==
    /\ existsSync(fs, TemplateManifestPath)
    /\ IsJson(fs[TemplateManifestPath].data)

TemplateManifest == JSONparse(fs[TemplateManifestPath].data)

\* the manifest step of the current invocation has just reported success
TransformSucceeded ==
    pc = "final" /\ Printed("Updated package.json successfully.")

WrittenManifest == JSONparse(fs[PathJoin(targetDir, PackageJson)].data)

HasBuild(manifest) ==
    "scripts" \in DOMAIN manifest /\ "build" \in DOMAIN manifest["scripts"]

(***************************************************************************)
(* C1: nothing is ever created or modified at the destination of an        *)
(* excluded path (an exclusion entry or a descendant of one) by a copy     *)
(* step, and a call of copyRecursiveSync on an excluded source path        *)
(* returns without changing the filesystem, throwing or warning.           *)
(***************************************************************************)
C1_ExcludedNeverCopied ==
    [][pc = "copy" =>
        /\ \A q \in DOMAIN fs \cup DOMAIN fs' :
              (Under(targetDir, q)
               /\ SegmentExcluded(PathRelative(targetDir, q), EXCLUDE_FROM_COPY))
              => /\ (q \in DOMAIN fs) = (q \in DOMAIN fs')
                 /\ q \in DOMAIN fs => fs'[q] = fs[q]
        /\ \A p \in DOMAIN fs :
              (Under(TEMPLATE_DIR, p)
               /\ SegmentExcluded(PathRelative(TEMPLATE_DIR, p), EXCLUDE_FROM_COPY))
              => copyRecursiveSync(fs, p,
                                   PathJoin(targetDir, PathRelative(TEMPLATE_DIR, p)),
                                   EXCLUDE_FROM_COPY)
                 = [fs |-> fs, thrown |-> NoError, warned |-> {}]
    ]_vars

\* src was copied from a template that holds src/initialize.ts, and the
\* target has no src/initialize.ts
C1_Witness ==
    /\ CopyDone
    /\ existsSync(fs, T(InitializeTs))
    /\ existsSync(fs, PathJoin(targetDir, ServerTs))
    /\ ~existsSync(fs, PathJoin(targetDir, InitializeTs))

(***************************************************************************)
(* C2: exclusion respects path-segment boundaries: once the copy phase has *)
(* ended without an error, every entry of the allow-listed template trees  *)
(* that is neither an exclusion entry nor a descendant of one is at the    *)
(* destination (a name that merely starts with the characters of an        *)
(* exclusion entry is copied).                                             *)
(***************************************************************************)
C2_SegmentBoundaries ==
    CopyDone =>
        \A i \in 1..Len(FILES_TO_COPY) :
            \A p \in DOMAIN fs :
                (Under(T(FILES_TO_COPY[i]), p)
                 /\ ~SegmentExcluded(PathRelative(TEMPLATE_DIR, p), EXCLUDE_FROM_COPY))
                => /\ existsSync(fs, PathJoin(targetDir, PathRelative(TEMPLATE_DIR, p)))
                   /\ fs[PathJoin(targetDir, PathRelative(TEMPLATE_DIR, p))] = fs[p]

(***************************************************************************)
(* C3: a successful transform writes a manifest whose name is              *)
(* answers.projectName when that is non-empty and else the basename of     *)
(* the target directory, never empty; whose version is "0.1.0"; and which  *)
(* has no bin, author, repository, bugs or homepage field.                 *)
(***************************************************************************)
C3_ManifestIdentity ==
    TransformSucceeded =>
        /\ WrittenManifest["name"] =
              (IF answers.projectName # << >> THEN answers.projectName
               ELSE PathBasename(targetDir))
        /\ WrittenManifest["name"] # << >>
        /\ WrittenManifest["version"] = "0.1.0"
        /\ DOMAIN WrittenManifest \cap { "bin", "author", "repository", "bugs", "homepage" } = {}

\* the template manifest had another version and all five template fields
C3_Witness ==
    /\ TransformSucceeded
    /\ TemplateManifest["version"] # "0.1.0"
    /\ { "bin", "author", "repository", "bugs", "homepage" } \subseteq DOMAIN TemplateManifest
    /\ WrittenManifest["name"] = Foo

(***************************************************************************)
(* C4: an allow-listed entry that is not on disk is reported with a        *)
(* warning that names it (and the other entries are still copied).         *)
(***************************************************************************)
C4_SourceMissingReported ==
    CopyDone =>
        \A i \in 1..Len(FILES_TO_COPY) :
            ~existsSync(fs, T(FILES_TO_COPY[i]))
            => \E line \in console :
                  /\ line.msg = "Source path not found, skipping"
                  /\ line.path = T(FILES_TO_COPY[i])

(***************************************************************************)
(* C5: when the template manifest is missing or is not JSON, the manifest  *)
(* step fails with an error that reaches its caller, run().                *)
(***************************************************************************)
C5_ManifestReadErrorSurfaced ==
    (pc = "final" /\ ~TemplateManifestReadable) => thrown # NoError

(***************************************************************************)
(* C6: when the copy of one allow-listed entry fails, every other          *)
(* allow-listed entry that is on disk and not excluded is still copied.    *)
(***************************************************************************)
C6_FailureIsolatedPerEntry ==
    (pc = "exited" /\ thrown # NoError /\ idx \in 1..Len(FILES_TO_COPY)) =>
        \A j \in 1..Len(FILES_TO_COPY) :
            (j # idx
             /\ existsSync(fs, T(FILES_TO_COPY[j]))
             /\ ~IsExcluded(FILES_TO_COPY[j], EXCLUDE_FROM_COPY))
            => existsSync(fs, PathJoin(targetDir, FILES_TO_COPY[j]))

(***************************************************************************)
(* C7: a copy of an allow-listed entry whose tree holds no excluded entry  *)
(* (no exclusion entry, no descendant of one) into a destination that is   *)
(* not there leaves at the destination a tree identical to the source      *)
(* tree: the same relative paths, the same kinds, the same bytes.          *)
(***************************************************************************)
C7_RoundTrip ==
    [][LET source      == T(CurrentEntry)
           destination == PathJoin(targetDir, CurrentEntry)
           clean       == \A p \in DOMAIN fs :
                              Under(source, p) =>
                                 ~SegmentExcluded(PathRelative(TEMPLATE_DIR, p),
                                                  EXCLUDE_FROM_COPY)
       IN  (pc = "copy" /\ pc' # "rejected" /\ ~existsSync(fs, destination) /\ clean)
           => (Subtree(fs', destination) = Subtree(fs, source))
    ]_vars

(***************************************************************************)
(* C8: up to the end of the copy phase nothing at the destination is       *)
(* deleted, and a path that existed before a step and is not the           *)
(* counterpart of a copied (existing, non-excluded) source entry has the   *)
(* same content after it.                                                  *)
(***************************************************************************)
C8_NeverDeletesNorTouchesOthers ==
    [][(pc = "start" \/ pc = "promptOverwrite" \/ pc = "copy") =>
        \A q \in DOMAIN fs :
            /\ q \in DOMAIN fs'
            /\ ~(/\ pc = "copy"
                 /\ Under(PathJoin(targetDir, CurrentEntry), q)
                 /\ existsSync(fs, T(PathRelative(targetDir, q)))
                 /\ ~SegmentExcluded(PathRelative(targetDir, q), EXCLUDE_FROM_COPY))
               => fs'[q] = fs[q]
    ]_vars

\* the user agreed to overwrite a target that held extra.txt, and after the
\* copy phase extra.txt is there with its bytes
C8_Witness ==
    /\ CopyDone
    /\ Printed("Overwriting directory")
    /\ existsSync(fs, PathJoin(targetDir, ServerTs))
    /\ existsSync(fs, PathJoin(targetDir, ExtraTxt))
    /\ fs[PathJoin(targetDir, ExtraTxt)] = File(Bytes("extra"))

(***************************************************************************)
(* C9: once an invocation has initialized the target, every copy step of   *)
(* a later invocation throws nothing and leaves the filesystem as it was.  *)
(***************************************************************************)
C9_Idempotent ==
    [][(pc = "copy" /\ initialized) => (fs' = fs /\ thrown' = NoError)]_vars

\* a second invocation has copied over the tree the first one made
C9_Witness ==
    /\ CopyDone
    /\ initialized
    /\ runs > 1
    /\ existsSync(fs, T(Docs))
    /\ existsSync(fs, PathJoin(targetDir, GuideMd))
    /\ existsSync(fs, PathJoin(targetDir, ToolsIndexTs))

(***************************************************************************)
(* C10, as stated: the build command is rewritten to "tsc" exactly when    *)
(* it is the template's chained build; any other build command is carried  *)
(* over unchanged; a manifest without a build command gets none.           *)
(***************************************************************************)
C10_RewritesOnlyChainedBuild ==
    TransformSucceeded =>
        /\ HasBuild(WrittenManifest) = HasBuild(TemplateManifest)
        /\ HasBuild(TemplateManifest) =>
              WrittenManifest["scripts"]["build"] =
                 (IF TemplateManifest["scripts"]["build"] = ChainedBuild THEN "tsc"
                  ELSE TemplateManifest["scripts"]["build"])

(***************************************************************************)
(* C10, amended: every non-empty build command, whatever it is, is         *)
(* rewritten to "tsc"; an empty one stays empty; a manifest without a      *)
(* build command (or without scripts) gets none; and no written manifest   *)
(* holds the chained build.                                                *)
(***************************************************************************)
C10_RewritesEveryBuild ==
    TransformSucceeded =>
        /\ HasBuild(WrittenManifest) = HasBuild(TemplateManifest)
        /\ ("scripts" \in DOMAIN WrittenManifest) = ("scripts" \in DOMAIN TemplateManifest)
        /\ HasBuild(TemplateManifest) =>
              /\ WrittenManifest["scripts"]["build"] =
                    (IF TemplateManifest["scripts"]["build"] # "" THEN "tsc" ELSE "")
              /\ WrittenManifest["scripts"]["build"] # ChainedBuild

\* a template whose build is not the chained one was transformed
C10_Witness ==
    /\ TransformSucceeded
    /\ HasBuild(TemplateManifest)
    /\ TemplateManifest["scripts"]["build"] = "webpack"
    /\ WrittenManifest["scripts"]["build"] = "tsc"

====
